---- MODULE Spec2Model ----
(***************************************************************************)
(* Model of InferenceBlackBox (src/src/services/inferenceBlackBox.py):     *)
(* process_dataset partitions a batch of image/mask records into           *)
(* standalone images and frame groups, blends and saves every standalone   *)
(* record, reconstructs one video per frame group, and returns a report.   *)
(*                                                                         *)
(* One call of process_dataset is one behaviour.  The loops of the method  *)
(* advance one iteration per step; the program counter pc says where the   *)
(* call stands.                                                            *)
(***************************************************************************)
EXTENDS Integers, Sequences, FiniteSets, TLC

\* ------------------------------------------------------------------ bounds
MaxPairs == 3       \* longest batch submitted

\* ------------------------------------------------------------- input data
\* Python's None: the value of a null key, and of dict.get(key) of an
\* absent one.
None == <<>>

\* A value that is not None.
Some(k) == <<k>>

\* A record that has no such key: pair['imagePath'] raises KeyError.
Missing == "<missing>"

\* The (imagePath, maskPath) combinations the batches are drawn from: a
\* complete record, a record without imagePath, a record without maskPath.
Shapes ==
    { <<"a.png", "mask.png">>, <<Missing, "mask.png">>, <<"a.png", Missing>> }

\* The uploadIndex values of the batches.
UploadIds == {1, 2}

\* The frameIndex key of the records of the batches: no such key ({}), or
\* the key with its value: null, or a frame number.
FrameIndexes == {{}, {None}, {Some(0)}, {Some(1)}}

\* A record of the batch: a dict that has the key frameIndex or has not.
\* pos is the record's position in the submitted list: it stands for the
\* identity of the Python dict object.
PairRecord(p, shape, u, fi) ==
    [pos |-> p, imagePath |-> shape[1], maskPath |-> shape[2],
     uploadIndex |-> u]
    @@ [key \in {"frameIndex" : v \in fi} |-> CHOOSE v \in fi : TRUE]

\* dict.get(key, default): the default only when the key is absent.
get(d, key, default) == IF key \in DOMAIN d THEN d[key] ELSE default

\* The (shape, uploadIndex, frameIndex) choices of one record.  The
\* uploadIndex of a standalone record is read and never used (line 184), so
\* the standalone records are all given the first one.  The frameIndex of
\* a standalone record is read once, to route it (lines 185-188), so the
\* records with a null frameIndex are given one shape.  A frame record
\* without maskPath ends like one without imagePath (KeyError at line 119,
\* logged with the video id at line 246), so the frame records are complete
\* or lack imagePath.
RecordChoices ==
    {x \in Shapes \X UploadIds \X FrameIndexes :
        /\ x[3] \in {{}, {None}} => x[2] = 1
        /\ x[3] = {None} => x[1] = <<"a.png", Missing>>
        /\ x[3] \notin {{}, {None}} => x[1][2] # Missing}

\* The batch of n records chosen by c.
Batch(n, c) == [p \in 1..n |-> PairRecord(p, c[p][1], c[p][2], c[p][3])]

VARIABLES
    pairsKey,           \* "present" | "absent": has dataset_data a 'pairs' key
    pairs,              \* dataset_data['pairs']
    pc,                 \* "start" | "items" | "frames" | "returned"
    single_images,      \* list of standalone records
    video_order,        \* keys of the dict video_groups, in insertion order
    video_groups,       \* uploadIndex -> list of frame records
    i,                  \* position of the loop over single_images
    g,                  \* position of the loop over video_groups.items()
    f,                  \* position of the loop over frame_pairs
    processed_images,   \* list of {originalPath, outputPath}
    processed_videos,   \* list of {originalVideoId, outputPath}
    processed_frames,   \* list of the frame paths in the temporary directory
    scratch,            \* temporary directories that exist
    temp_files,         \* frame files that exist in a temporary directory
    store,              \* files that exist under the output directory
    uuid,               \* number of uuid4() values drawn
    calls,              \* history: calls of process_image_pair and outcomes
    saves,              \* history: attempts to write an output file
    errlog,             \* logger.error records of the orchestrator's handlers
    result              \* <<report>> once process_dataset returned, else <<>>

vars == <<pairsKey, pairs, pc, single_images, video_order, video_groups, i, g,
          f, processed_images, processed_videos, processed_frames, scratch,
          temp_files, store, uuid, calls, saves, errlog, result>>

\* ------------------------------------------------------ process_image_pair
\* What the two cv2.imread calls of one process_image_pair call find: both
\* files decode ("none" is unreadable), the image does not (the mask is then
\* never read), or the image does and the mask does not.
Unreadable == {"none", "image", "mask"}

\* How evaluating self.process_image_pair(pair['imagePath'], pair['maskPath'])
\* ends: the subscripts are evaluated first, left to right (KeyError), then
\* the image is loaded and checked, then the mask.
\* (Fault: the mask is not checked after loading.)
BlendOutcomeNoMaskCheck(pair, unreadable) ==
    IF pair.imagePath = Missing THEN "KeyError:imagePath"
    ELSE IF pair.maskPath = Missing THEN "KeyError:maskPath"
    ELSE IF unreadable = "image" THEN "ValueError:image"
    ELSE "ok"
\* (Fault: the image is not checked after loading.)
BlendOutcomeNoImageCheck(pair, unreadable) ==
    IF pair.imagePath = Missing THEN "KeyError:imagePath"
    ELSE IF pair.maskPath = Missing THEN "KeyError:maskPath"
    ELSE IF unreadable = "mask" THEN "ValueError:mask"
    ELSE "ok"
\* (The code.)
BlendOutcome(pair, unreadable) ==
    IF pair.imagePath = Missing THEN "KeyError:imagePath"
    ELSE IF pair.maskPath = Missing THEN "KeyError:maskPath"
    ELSE IF unreadable = "image" THEN "ValueError:image"
    ELSE IF unreadable = "mask" THEN "ValueError:mask"
    ELSE "ok"

\* What the call read, for the history: nothing when a subscript raised
\* before the call.
ReadResult(pair, unreadable) ==
    IF pair.imagePath = Missing \/ pair.maskPath = Missing
    THEN "not read" ELSE unreadable

\* -------------------------------------------------------- output directory
\* What an attempt to write an output file meets: the write works; or
\* os.makedirs of the user's directory raises OSError (lines 92, 134); or
\* the directory is there and the write itself fails, which cv2.imwrite
\* reports by returning False and cv2.VideoWriter by staying closed and
\* dropping the frames (lines 99, 148-157): no exception, and the code reads
\* neither.
Disk == {"ok", "mkdir", "write"}

\* ------------------------------------------------------------ file names
\* os.path.splitext(os.path.basename(path))[0] for the paths of the model.
Stem(path) ==
    CASE path = "a.png" -> "a"
      [] path = "mask.png" -> "mask"

\* str(video_id) for an integer upload index.
Digits == <<"0", "1", "2", "3", "4", "5", "6", "7", "8", "9">>
RECURSIVE str(_)
str(n) == IF n < 10 THEN <<Digits[n + 1]>>
          ELSE str(n \div 10) \o <<Digits[(n % 10) + 1]>>

\* f"{uuid.uuid4()}_{filename}" under the user's output directory: the uuid
\* drawn is the number of the draw, so every draw is fresh.
OutputPath(n, filename) == [uuid |-> n, name |-> filename]

ImageFilename(pair) == <<"processed_", Stem(pair.imagePath), ".png">>

VideoFilename(video_id) == <<"video_", video_id, ".mp4">>

\* ------------------------------------------------------------- partition
\* frame_index = pair.get('frameIndex'); `frame_index is not None`.
\* (Fault: `if frame_index:`, which takes frame 0 for a standalone image.)
IsFrameTruthy(pair) ==
    get(pair, "frameIndex", None) \notin {None, Some(0)}
IsFrame(pair) == get(pair, "frameIndex", None) # None

\* `if upload_index not in video_groups: video_groups[upload_index] = []`:
\* a dict keeps its keys in insertion order.  (Fault: a new key goes to the
\* front.)
InsertKeyFront(order, k) ==
    IF \E n \in 1..Len(order) : order[n] = k THEN order ELSE <<k>> \o order
InsertKey(order, k) ==
    IF \E n \in 1..Len(order) : order[n] = k THEN order ELSE Append(order, k)

\* One iteration of the loop `for pair in pairs`.
Route(acc, pair) ==
    IF IsFrame(pair)
    THEN LET u == pair.uploadIndex
             old == IF u \in DOMAIN acc.groups THEN acc.groups[u] ELSE <<>>
         IN  [acc EXCEPT !.order = InsertKey(@, u),
                         !.groups = (u :> Append(old, pair)) @@ @]
    ELSE [acc EXCEPT !.singles = Append(@, pair)]

RECURSIVE PartitionFrom(_, _)
PartitionFrom(ps, acc) ==
    IF ps = <<>> THEN acc ELSE PartitionFrom(Tail(ps), Route(acc, Head(ps)))

EmptyPartition == [singles |-> <<>>, order |-> <<>>, groups |-> <<>>]

\* ------------------------------------------------------------------ sort
\* key=lambda x: x.get('frameIndex', 0): the value of the key, None for a
\* null one, 0 for a record without the key.
SortKey(x) == get(x, "frameIndex", Some(0))

\* list.sort computes the keys and then compares them with `<`, every
\* element of a list of two or more at least once; None does not support
\* `<`, not even with None: TypeError.
SortRaises(s) ==
    /\ Len(s) >= 2
    /\ \E n \in 1..Len(s) : SortKey(s[n]) = None

\* list.sort is stable: an element is placed behind the elements already
\* placed whose key is not greater.
RECURSIVE InsertByKey(_, _)
InsertByKey(s, x) ==
    IF s = <<>> THEN <<x>>
    ELSE IF SortKey(x)[1] < SortKey(Head(s))[1]
         THEN <<x>> \o s
         ELSE <<Head(s)>> \o InsertByKey(Tail(s), x)

RECURSIVE SortFrom(_, _)
SortFrom(s, acc) ==
    IF s = <<>> THEN acc ELSE SortFrom(Tail(s), InsertByKey(acc, Head(s)))

\* The list after frame_pairs.sort(...) returned.
sort(s) == SortFrom(s, <<>>)

\* The list after frame_pairs.sort(...) raised: "the list will likely be
\* left in a partially modified state", some order of the same elements.
Reorderings(s) ==
    {t \in [1..Len(s) -> {s[n] : n \in 1..Len(s)}] :
        \A n \in 1..Len(s) : \E k \in 1..Len(s) : t[k] = s[n]}

\* ------------------------------------------------------ temporary directory
\* The directory of the call in progress (tempfile.TemporaryDirectory()).
TempDir(video_id) == <<"tmp", video_id>>

\* What tempfile.TemporaryDirectory() meets (line 113): the directory is
\* made, or it cannot be made (the temporary area is missing, full or
\* read-only) and the call raises OSError.
TempArea == {"ok", "mkdir"}

\* f"frame_{i:04d}.png": the number in at least four digits.
RECURSIVE Pad4(_)
Pad4(digits) == IF Len(digits) >= 4 THEN digits ELSE Pad4(<<"0">> \o digits)

FrameFilename(n) == <<"frame_">> \o Pad4(str(n)) \o <<".png">>

\* os.path.join(temp_dir, frame_filename)
FramePath(temp_dir, n) == [dir |-> temp_dir, name |-> FrameFilename(n)]

\* What cv2.imwrite(frame_path, processed_image) meets in the temporary
\* directory: the file is written, or it is not and the call returns False
\* (line 125; the code does not read the return value).
TempDisk == {"ok", "write"}

\* cv2.imread(frame_path) of a frame path: the image of the file, None when
\* there is no such file.
imread(files, frame_path) ==
    IF \E file \in files : file.path = frame_path
    THEN Some((CHOOSE file \in files : file.path = frame_path).image)
    ELSE None

\* Lines 151-154: the frames handed to out.write, in list order: a path
\* that does not decode is passed over.
RECURSIVE FramesWritten(_, _)
FramesWritten(files, paths) ==
    IF paths = <<>> THEN <<>>
    ELSE LET frame == imread(files, Head(paths))
         IN  (IF frame # None THEN <<frame[1]>> ELSE <<>>)
             \o FramesWritten(files, Tail(paths))

\* Leaving the `with` block, normally (raised = FALSE) or by an exception
\* (raised = TRUE): the context manager removes the directory either way.
\* (Fault: the directory is removed at the end of the block only.)
ExitWithLeaky(dirs, dir, raised) == IF raised THEN dirs ELSE dirs \ {dir}
ExitWith(dirs, dir, raised) == dirs \ {dir}

\* The files of the directories that are left.
FilesIn(dirs, files) == {file \in files : file.path.dir \in dirs}

\* ---------------------------------------------------------- process_dataset
\* dataset_data.get('pairs', [])
GetPairs == IF pairsKey = "present" THEN pairs ELSE <<>>

\* `if not pairs`.  (Fault: the test is missing.)
NotPairsNever(ps) == FALSE
NotPairs(ps) == Len(ps) = 0

Init ==
    /\ pairsKey \in {"present", "absent"}
    /\ \E n \in 0..MaxPairs :
         \E c \in [1..n -> RecordChoices] :
           pairs = Batch(n, c)
    /\ pairsKey = "absent" => pairs = <<>>
    /\ pc = "start"
    /\ single_images = <<>>
    /\ video_order = <<>>
    /\ video_groups = <<>>
    /\ i = 1
    /\ g = 1
    /\ f = 1
    /\ processed_images = <<>>
    /\ processed_videos = <<>>
    /\ processed_frames = <<>>
    /\ scratch = {}
    /\ temp_files = {}
    /\ store = {}
    /\ uuid = 0
    /\ calls = <<>>
    /\ saves = <<>>
    /\ errlog = <<>>
    /\ result = <<>>

\* Lines 174-176: no pairs, the call returns the failure at once.
EmptyBatch ==
    /\ pc = "start"
    /\ NotPairs(GetPairs)
    /\ result' = <<[success |-> FALSE,
                    error |-> "No data pairs found in dataset"]>>
    /\ pc' = "returned"
    /\ UNCHANGED <<pairsKey, pairs, single_images, video_order, video_groups,
                   i, g, f, processed_images, processed_videos,
                   processed_frames, scratch, temp_files, store, uuid, calls,
                   saves, errlog>>

\* Lines 178-197: the partition loop.
Partition ==
    /\ pc = "start"
    /\ ~NotPairs(GetPairs)
    /\ LET part == PartitionFrom(GetPairs, EmptyPartition)
       IN  /\ single_images' = part.singles
           /\ video_order' = part.order
           /\ video_groups' = part.groups
    /\ pc' = "items"
    /\ UNCHANGED <<pairsKey, pairs, i, g, f, processed_images,
                   processed_videos, processed_frames, scratch, temp_files,
                   store, uuid, calls, saves, errlog, result>>

\* Lines 200-228: one iteration of `for pair in single_images`.
\* `unreadable` is what the cv2.imread calls find, `disk` what
\* save_processed_image meets.
ProcessSingle ==
    /\ pc = "items"
    /\ i <= Len(single_images)
    /\ \E unreadable \in Unreadable :
       LET pair == single_images[i]
           outcome == BlendOutcome(pair, unreadable)
           output_path == OutputPath(uuid + 1, ImageFilename(pair))
       IN  /\ calls' = Append(calls, [kind |-> "single", group |-> 0,
                                      pos |-> pair.pos,
                                      read |-> ReadResult(pair, unreadable),
                                      outcome |-> outcome])
           /\ IF outcome = "ok"
              THEN \E disk \in Disk :
                   /\ saves' = Append(saves, [kind |-> "image",
                                              item |-> pair.pos,
                                              disk |-> disk])
                   /\ IF disk = "mkdir"
                      THEN /\ errlog' = Append(errlog,
                                               [kind |-> "single",
                                                item |-> pair.pos,
                                                error |-> "OSError"])
                           /\ i' = i + 1
                           /\ UNCHANGED <<store, uuid, processed_images, pc,
                                          result>>
                      ELSE /\ store' =
                                IF disk = "ok"
                                THEN store \cup {[path |-> output_path,
                                                  frames |-> <<pair>>]}
                                ELSE store
                           /\ uuid' = uuid + 1
                           /\ processed_images' =
                                Append(processed_images,
                                       [originalPath |-> pair.imagePath,
                                        outputPath |-> output_path])
                           /\ i' = i + 1
                           /\ UNCHANGED <<pc, errlog, result>>
              ELSE /\ UNCHANGED saves
                   /\ IF pair.imagePath = Missing
                      THEN \* the handler's own pair['imagePath'] (line 226)
                           \* raises KeyError, which the outer except
                           \* (lines 262-264) turns into the return value
                           /\ result' = <<[success |-> FALSE,
                                           error |-> "'imagePath'"]>>
                           /\ pc' = "returned"
                           /\ UNCHANGED <<store, uuid, processed_images, i,
                                          errlog>>
                      ELSE /\ errlog' = Append(errlog,
                                               [kind |-> "single",
                                                item |-> pair.pos,
                                                error |-> outcome])
                           /\ i' = i + 1
                           /\ UNCHANGED <<store, uuid, processed_images, pc,
                                          result>>
    /\ UNCHANGED <<pairsKey, pairs, single_images, video_order, video_groups,
                   g, f, processed_videos, processed_frames, scratch,
                   temp_files>>

\* Lines 231-235 and 108-114: the next group is handed to
\* process_video_frames, which sorts the list in place and creates the
\* temporary directory.  `area` is what creating it meets.  A sort that
\* raises, and a directory that cannot be made, are logged and re-raised
\* (162-164) and end in the orchestrator's handler (244-248): there is no
\* directory and no frame is blended.
StartVideo ==
    /\ pc = "items"
    /\ i > Len(single_images)
    /\ g <= Len(video_order)
    /\ \E area \in TempArea :
       LET video_id == video_order[g]
           frame_pairs == video_groups[video_id]
           raise(error) ==
               /\ errlog' = Append(errlog, [kind |-> "video",
                                            item |-> video_id,
                                            error |-> error])
               /\ g' = g + 1
               /\ UNCHANGED <<scratch, pc>>
       IN  IF SortRaises(frame_pairs)
           THEN /\ \E left \in Reorderings(frame_pairs) :
                     video_groups' = [video_groups EXCEPT ![video_id] = left]
                /\ raise("TypeError")
           ELSE /\ video_groups' =
                     [video_groups EXCEPT ![video_id] = sort(frame_pairs)]
                /\ IF area = "mkdir"
                   THEN raise("OSError")
                   ELSE /\ scratch' = scratch \cup {TempDir(video_id)}
                        /\ pc' = "frames"
                        /\ UNCHANGED <<errlog, g>>
    /\ processed_frames' = <<>>
    /\ f' = 1
    /\ UNCHANGED <<pairsKey, pairs, single_images, video_order, i,
                   processed_images, processed_videos, temp_files, store,
                   uuid, calls, saves, result>>

\* Lines 117-126: one iteration of `for i, pair in enumerate(frame_pairs)`.
\* `unreadable` is what the cv2.imread calls find, `disk` what the
\* cv2.imwrite of the frame meets.  An exception leaves the `with` block, is
\* logged and re-raised (162-164) and ends in the orchestrator's handler
\* (244-248).
BlendFrame ==
    /\ pc = "frames"
    /\ f <= Len(video_groups[video_order[g]])
    /\ \E unreadable \in Unreadable :
       LET video_id == video_order[g]
           pair == video_groups[video_id][f]
           outcome == BlendOutcome(pair, unreadable)
           frame_path == FramePath(TempDir(video_id), f - 1)
       IN  /\ calls' = Append(calls, [kind |-> "frame", group |-> video_id,
                                      pos |-> pair.pos,
                                      read |-> ReadResult(pair, unreadable),
                                      outcome |-> outcome])
           /\ IF outcome = "ok"
              THEN \E disk \in TempDisk :
                   /\ temp_files' =
                        IF disk = "ok"
                        THEN temp_files \cup {[path |-> frame_path,
                                               image |-> pair]}
                        ELSE temp_files
                   /\ processed_frames' = Append(processed_frames, frame_path)
                   /\ f' = f + 1
                   /\ UNCHANGED <<scratch, errlog, g, pc>>
              ELSE /\ scratch' = ExitWith(scratch, TempDir(video_id), TRUE)
                   /\ temp_files' = FilesIn(scratch', temp_files)
                   /\ processed_frames' = <<>>
                   /\ errlog' = Append(errlog, [kind |-> "video",
                                                item |-> video_id,
                                                error |-> outcome])
                   /\ g' = g + 1
                   /\ f' = 1
                   /\ pc' = "items"
    /\ UNCHANGED <<pairsKey, pairs, single_images, video_order, video_groups,
                   i, processed_images, processed_videos, store, uuid, saves,
                   result>>

\* Lines 128-160 and 238-242: the loop over the frames is over.  Without
\* frames the call raises ValueError.  Otherwise the output directory is
\* made (OSError when `disk` is "mkdir"), a uuid is drawn, the first frame
\* file is read for the dimensions (AttributeError when it does not decode)
\* and the frame files that decode are handed to the video writer in list
\* order.  `disk` is what the output directory and the writer meet.
EncodeVideo ==
    /\ pc = "frames"
    /\ f > Len(video_groups[video_order[g]])
    /\ \E disk \in Disk :
       LET video_id == video_order[g]
           output_path == OutputPath(uuid + 1, VideoFilename(str(video_id)))
           first_frame == imread(temp_files, processed_frames[1])
           raise(error) ==
               /\ scratch' = ExitWith(scratch, TempDir(video_id), TRUE)
               /\ errlog' = Append(errlog, [kind |-> "video",
                                            item |-> video_id,
                                            error |-> error])
               /\ UNCHANGED <<store, processed_videos>>
       IN  IF processed_frames = <<>>
           THEN raise("ValueError") /\ UNCHANGED <<saves, uuid>>
           ELSE IF disk = "mkdir"
           THEN /\ saves' = Append(saves, [kind |-> "video",
                                           item |-> video_id,
                                           disk |-> disk])
                /\ raise("OSError")
                /\ UNCHANGED uuid
           ELSE IF first_frame = None
           THEN /\ saves' = Append(saves, [kind |-> "video",
                                           item |-> video_id,
                                           disk |-> "no writer"])
                /\ uuid' = uuid + 1
                /\ raise("AttributeError")
           ELSE /\ saves' = Append(saves, [kind |-> "video",
                                           item |-> video_id,
                                           disk |-> disk])
                /\ uuid' = uuid + 1
                /\ store' =
                     IF disk = "ok"
                     THEN store \cup
                          {[path |-> output_path,
                            frames |-> FramesWritten(temp_files,
                                                     processed_frames)]}
                     ELSE store
                /\ scratch' = ExitWith(scratch, TempDir(video_id), FALSE)
                /\ processed_videos' =
                     Append(processed_videos,
                            [originalVideoId |-> str(video_id),
                             outputPath |-> output_path])
                /\ UNCHANGED errlog
    /\ temp_files' = FilesIn(scratch', temp_files)
    /\ processed_frames' = <<>>
    /\ g' = g + 1
    /\ f' = 1
    /\ pc' = "items"
    /\ UNCHANGED <<pairsKey, pairs, single_images, video_order, video_groups,
                   i, processed_images, calls, result>>

\* Lines 250-260: both loops are over, the report is returned.
Finish ==
    /\ pc = "items"
    /\ i > Len(single_images)
    /\ g > Len(video_order)
    /\ result' = <<[success |-> TRUE, images |-> processed_images,
                    videos |-> processed_videos]>>
    /\ pc' = "returned"
    /\ UNCHANGED <<pairsKey, pairs, single_images, video_order, video_groups,
                   i, g, f, processed_images, processed_videos,
                   processed_frames, scratch, temp_files, store, uuid, calls,
                   saves, errlog>>

Next ==
    \/ EmptyBatch
    \/ Partition
    \/ ProcessSingle
    \/ StartVideo
    \/ BlendFrame
    \/ EncodeVideo
    \/ Finish

Spec == Init /\ [][Next]_vars

\* ===================================================== properties
\* The batch as submitted, read without the operators of the model.
Submitted == IF pairsKey = "present" THEN pairs ELSE <<>>

\* The record has the key frameIndex and its value is not null.
HasFrameIndex(r) == "frameIndex" \in DOMAIN r /\ r.frameIndex # <<>>

\* The standalone records, in submission order.
Standalone == SelectSeq(Submitted, LAMBDA r : ~HasFrameIndex(r))

\* The frame records of upload index u, in submission order.
GroupOf(u) ==
    SelectSeq(Submitted, LAMBDA r : HasFrameIndex(r) /\ r.uploadIndex = u)

\* The distinct uploadIndex values among the frame records.
FrameKeys ==
    {Submitted[k].uploadIndex :
        k \in {n \in 1..Len(Submitted) : HasFrameIndex(Submitted[n])}}

Elems(s) == {s[k] : k \in 1..Len(s)}

\* Position of the first frame record of upload index u in the batch.
FirstSeen(u) ==
    CHOOSE k \in 1..Len(Submitted) :
        /\ HasFrameIndex(Submitted[k]) /\ Submitted[k].uploadIndex = u
        /\ \A n \in 1..(k - 1) :
              ~(HasFrameIndex(Submitted[n]) /\ Submitted[n].uploadIndex = u)

\* The call of process_video_frames for group u has ended.
GroupDone(u) ==
    \E k \in 1..Len(video_order) : video_order[k] = u /\ k < g

FrameCalls(u) ==
    SelectSeq(calls, LAMBDA c : c.kind = "frame" /\ c.group = u)

SingleCalls == SelectSeq(calls, LAMBDA c : c.kind = "single")

VideoEntries(u) ==
    {k \in 1..Len(processed_videos) :
        processed_videos[k].originalVideoId = str(u)}

VideoFiles(u) == {file \in store : file.path.name = VideoFilename(str(u))}

ImageFiles == {file \in store : file.path.name[1] = "processed_"}

Returned == pc = "returned"

Succeeded == pc = "returned" /\ result[1].success

\* out is `inp` in ascending frameIndex, equal frameIndex in submission
\* order, every record exactly once.
IsStableSortOf(out, inp) ==
    /\ Len(out) = Len(inp)
    /\ Elems(out) = Elems(inp)
    /\ \A n \in 2..Len(out) :
          \/ out[n - 1].frameIndex[1] < out[n].frameIndex[1]
          \/ /\ out[n - 1].frameIndex[1] = out[n].frameIndex[1]
             /\ out[n - 1].pos < out[n].pos

\* ----------------------------------------------------------------- C2
\* C2: a call with `pairs` empty or absent returns exactly
\* {success: false, error: "No data pairs found in dataset"} at once: it
\* never partitions, blends no pair and writes no artifact.
EmptyBatchIsTerminal ==
    Submitted = <<>> =>
        /\ pc \in {"start", "returned"}
        /\ single_images = <<>> /\ video_order = <<>>
        /\ calls = <<>> /\ store = {} /\ scratch = {} /\ uuid = 0
        /\ pc = "returned" =>
              result = <<[success |-> FALSE,
                          error |-> "No data pairs found in dataset"]>>

EmptyBatchReturned == pc = "returned" /\ pairsKey = "absent"

\* ----------------------------------------------------------------- C4
\* C4: when the partition loop is over and no item has been processed yet,
\* every record is in exactly one bucket; it is in
\* video_groups[uploadIndex] iff its frameIndex is present (0 included) and
\* in single_images iff it is absent or null; every group is non-empty,
\* holds only records of its own uploadIndex and keeps them in submission
\* order.
PartitionInvariant ==
    (pc = "items" /\ i = 1 /\ g = 1) =>
        LET keys == FrameKeys
        IN  /\ single_images = Standalone
            /\ DOMAIN video_groups = keys
            /\ Elems(video_order) = keys
            /\ \A u \in keys :
                  LET group == video_groups[u]
                      frames == GroupOf(u)
                  IN  /\ group # <<>>
                      /\ group = frames
            /\ \A k \in 1..Len(Submitted) :
                  LET r == Submitted[k]
                      in_single == \E n \in 1..Len(single_images) :
                                      single_images[n] = r
                      in_group(u) == \E n \in 1..Len(video_groups[u]) :
                                       video_groups[u][n] = r
                  IN  /\ in_single <=> ~HasFrameIndex(r)
                      /\ \A u \in keys :
                            in_group(u) <=>
                               (HasFrameIndex(r) /\ r.uploadIndex = u)

PartitionedMixedBatch ==
    /\ pc = "items" /\ g = 1 /\ i = 1
    /\ single_images # <<>>
    /\ Len(video_order) = 2
    /\ \E u \in DOMAIN video_groups :
          \E k \in 1..Len(video_groups[u]) :
            video_groups[u][k].frameIndex = <<0>>

\* ----------------------------------------------------------------- C3
\* C3: whatever the input order of a group, the frames blended, numbered
\* frame_0000, frame_0001, ... and handed to the video writer are the
\* group's records in ascending frameIndex, equal frameIndex in submission
\* order, every record exactly once.
FrameOrdering ==
    /\ pc = "frames" =>
          LET u == video_order[g]
              frame_pairs == video_groups[u]
          IN  /\ IsStableSortOf(frame_pairs, GroupOf(u))
              /\ Len(processed_frames) = f - 1
              /\ \A k \in 1..Len(processed_frames) :
                    /\ processed_frames[k].name
                          = <<"frame_", "0", "0", "0", Digits[k], ".png">>
                    /\ \A file \in temp_files :
                          file.path = processed_frames[k]
                             => file.image = frame_pairs[k]
    /\ \A u \in FrameKeys :
          /\ \A file \in VideoFiles(u) :
                IsStableSortOf(file.frames, GroupOf(u))
          /\ LET blended == FrameCalls(u)
                 sorted == video_groups[u]
             IN  \A k \in 1..Len(blended) : blended[k].pos = sorted[k].pos

\* ----------------------------------------------------------------- C8
\* C8: the temporary frame directory of a reconstruction exists only while
\* that call of process_video_frames runs: it is gone on every way out of
\* the call (normal return, a frame that fails to blend, no frames, an
\* error while encoding), and none is left when process_dataset returned.
ScratchCleanup ==
    /\ pc = "frames" =>
          /\ scratch = {TempDir(video_order[g])}
          /\ \A file \in temp_files : file.path.dir \in scratch
    /\ pc # "frames" => scratch = {} /\ temp_files = {}

\* The call returned after one reconstruction failed at a frame and another
\* one failed while encoding.
ReturnedAfterBlendAndEncodeFailure ==
    /\ Succeeded
    /\ \E k \in 1..Len(calls) :
          calls[k].kind = "frame" /\ calls[k].outcome # "ok"
    /\ \E k \in 1..Len(saves) :
          saves[k].kind = "video" /\ saves[k].disk = "mkdir"

\* ----------------------------------------------------------------- C6
\* C6: when process_dataset has returned, a group none of whose frames
\* blended (every frame tried failed to decode) has made
\* process_video_frames fail: the group has no entry in processed_videos, no
\* video of it exists under the output directory, its failure is logged,
\* and the loop went on to the remaining groups, so a successful return has
\* handed every group to process_video_frames.
NoFrameBlended(u) ==
    /\ GroupDone(u)
    /\ LET blended == FrameCalls(u)
       IN  \A k \in 1..Len(blended) : blended[k].read # "none"

EmptySequence ==
    Returned =>
        /\ \A u \in FrameKeys :
              NoFrameBlended(u) =>
                /\ VideoEntries(u) = {}
                /\ VideoFiles(u) = {}
                /\ \E k \in 1..Len(errlog) :
                      errlog[k].kind = "video" /\ errlog[k].item = u
        /\ result[1].success => \A u \in FrameKeys : GroupDone(u)

\* The first group processed blended no frame, the next group was still
\* reconstructed and reported.
UndecodableGroupThenGoodGroup ==
    /\ Succeeded
    /\ Len(video_order) = 2
    /\ NoFrameBlended(video_order[1])
    /\ FrameCalls(video_order[1]) # <<>>
    /\ Len(GroupOf(video_order[1])) = 2
    /\ VideoEntries(video_order[2]) # {}

\* ----------------------------------------------------------------- C9
\* C9: in a call that has returned, every standalone record was processed,
\* in submission order, before any frame group; the groups are processed
\* one after the other in
\* first-seen order of their uploadIndex; processed_images and
\* processed_videos follow those orders; no record is processed twice.
ProcessingOrder ==
    LET singles == SingleCalls
        standalone == Standalone
        saved == SelectSeq(saves, LAMBDA w : w.kind = "image"
                                             /\ w.disk # "mkdir")
        seen == [u \in FrameKeys |-> FirstSeen(u)]
        ids == [u \in FrameKeys |-> str(u)]
    IN  Returned =>
        /\ \A n \in 2..Len(calls) :
              LET later == calls[n]
              IN  \A k \in 1..(n - 1) :
                    LET earlier == calls[k]
                    IN  /\ earlier.pos # later.pos
                        /\ later.kind = "single" =>
                              /\ earlier.kind = "single"
                              /\ earlier.pos < later.pos
                        /\ (earlier.kind = "frame"
                               /\ earlier.group # later.group)
                              => seen[earlier.group] < seen[later.group]
        /\ \A k \in 1..Len(singles) : singles[k].pos = standalone[k].pos
        /\ Len(singles) < Len(calls) => Len(singles) = Len(standalone)
        /\ \A n \in 2..Len(video_order) :
              seen[video_order[n - 1]] < seen[video_order[n]]
        /\ Len(processed_images) = Len(saved)
        /\ \A k \in 1..Len(saved) :
              processed_images[k].originalPath =
                 Submitted[saved[k].item].imagePath
        /\ \A n \in 2..Len(processed_images) :
              processed_images[n - 1].outputPath.uuid
                 < processed_images[n].outputPath.uuid
        /\ \A n \in 2..Len(processed_videos) :
              \E u, v \in FrameKeys :
                /\ processed_videos[n - 1].originalVideoId = ids[u]
                /\ processed_videos[n].originalVideoId = ids[v]
                /\ seen[u] < seen[v]
        /\ \A k \in 1..Len(processed_images) :
              \A n \in 1..Len(processed_videos) :
                processed_images[k].outputPath.uuid
                   < processed_videos[n].outputPath.uuid

\* A report with a standalone image and two videos, the group with the
\* larger uploadIndex submitted and reported first.
MixedBatchReported ==
    /\ Succeeded
    /\ Len(result[1].images) = 1
    /\ Len(result[1].videos) = 2
    /\ result[1].videos[1].originalVideoId = str(2)
    /\ ~HasFrameIndex(Submitted[3])

\* ---------------------------------------------------------------- C10
\* The reconstruction of group u raised an error after its frames were
\* blended: creating the output directory, or reading back the first frame
\* for the dimensions of the video.
EncodeRaised(u) ==
    \E k \in 1..Len(errlog) :
        /\ errlog[k].kind = "video" /\ errlog[k].item = u
        /\ errlog[k].error \in {"OSError", "AttributeError"}
        /\ FrameCalls(u) # <<>>

\* C10 as stated: when process_dataset has returned, a group has an entry
\* in processed_videos iff every one of its frames blended; a frame that
\* fails ends the reconstruction at that frame, the later frames of the
\* group are not blended and the whole group is left out.
AllOrNothing ==
    Returned => \A u \in FrameKeys :
        LET blended == FrameCalls(u)
            entries == VideoEntries(u)
            frames == GroupOf(u)
        IN  /\ GroupDone(u) =>
                  /\ Cardinality(entries) <= 1
                  /\ entries # {} <=>
                        \A n \in 1..Len(frames) :
                          \E k \in 1..Len(blended) :
                            /\ blended[k].pos = frames[n].pos
                            /\ blended[k].read = "none"
            /\ ~GroupDone(u) => entries = {}
            /\ \A k \in 1..(Len(blended) - 1) : blended[k].read = "none"

\* C10 as amended: when process_dataset has returned, a group has an entry
\* in processed_videos iff every one of its frames blended and the steps
\* that follow (making the output directory, encoding) raised no error; a
\* frame that fails ends the reconstruction at that frame, the later frames
\* of the group are not blended and the whole group is left out.
AllOrNothingUnlessEncodeRaises ==
    Returned => \A u \in FrameKeys :
        LET blended == FrameCalls(u)
            entries == VideoEntries(u)
            frames == GroupOf(u)
        IN  /\ GroupDone(u) =>
                  /\ Cardinality(entries) <= 1
                  /\ entries # {} <=>
                        /\ ~EncodeRaised(u)
                        /\ \A n \in 1..Len(frames) :
                              \E k \in 1..Len(blended) :
                                /\ blended[k].pos = frames[n].pos
                                /\ blended[k].read = "none"
            /\ ~GroupDone(u) => entries = {}
            /\ \A k \in 1..(Len(blended) - 1) : blended[k].read = "none"

\* A group of three frames whose second frame failed to decode: the first
\* frame was blended, the third never read, the group is not reported.
GroupDroppedAtSecondFrame ==
    \E u \in FrameKeys :
        /\ Succeeded
        /\ Len(GroupOf(u)) = 3
        /\ Len(FrameCalls(u)) = 2
        /\ FrameCalls(u)[1].read = "none"
        /\ FrameCalls(u)[2].read = "mask"
        /\ VideoEntries(u) = {}

\* ----------------------------------------------------------------- C7
\* C7: a failed write of an output image or video keeps the item out of
\* the report: every outputPath of a success report names a file that
\* exists under the output directory.
ReportedArtifactsWritten ==
    Succeeded =>
        /\ \A k \in 1..Len(result[1].images) :
              \E file \in store : file.path = result[1].images[k].outputPath
        /\ \A k \in 1..Len(result[1].videos) :
              \E file \in store : file.path = result[1].videos[k].outputPath

\* ----------------------------------------------------------------- C5
\* C5: a record without imagePath or maskPath is a per-item error: the call
\* still returns success = true, and every other standalone record and
\* every group is still processed.
MalformedRecordIsPerItem ==
    (Returned /\ Submitted # <<>>) =>
        /\ result[1].success
        /\ Len(SingleCalls) = Len(Standalone)
        /\ \A u \in FrameKeys : FrameCalls(u) # <<>>

\* ----------------------------------------------------------------- C1
\* C1: a non-empty batch returns success = true; images has exactly one
\* entry per standalone record whose blend and save succeeded and none for
\* a failed one, videos exactly one entry per uploadIndex whose
\* reconstruction succeeded and none for a failed one; entries plus
\* skipped items add up to the standalone records and to the distinct
\* uploadIndex values of the frame records.
FailureIsolation ==
    (Returned /\ Submitted # <<>>) =>
        /\ result[1].success
        /\ LET images == result[1].images
               videos == result[1].videos
               skipped_images ==
                  {k \in 1..Len(errlog) : errlog[k].kind = "single"}
               skipped_groups ==
                  {k \in 1..Len(errlog) : errlog[k].kind = "video"}
           IN  /\ Len(images) + Cardinality(skipped_images) = Len(Standalone)
               /\ Len(videos) + Cardinality(skipped_groups)
                     = Cardinality(FrameKeys)
               /\ \A k \in 1..Len(images) :
                     \E file \in ImageFiles : file.path = images[k].outputPath
               /\ Len(images) = Cardinality(ImageFiles)
               /\ \A u \in FrameKeys :
                     /\ Cardinality(VideoEntries(u)) = Cardinality(VideoFiles(u))
                     /\ \A k \in VideoEntries(u) :
                           \E file \in VideoFiles(u) :
                             file.path = videos[k].outputPath

====
